---------------------------- MODULE Spec2Model ----------------------------
(***************************************************************************)
(* A model of the soloman compiler (src/src/main.rs): the lexer, the       *)
(* recursive-descent parser, the assembly-text code generator, main's      *)
(* pipeline, and the x86-64 execution of the emitted out.asm.              *)
(*                                                                         *)
(* 64-bit quantities (i64 literals, registers) are kept at their full      *)
(* width as little-endian sequences of WordBytes limbs in base LimbBase,   *)
(* since the model checker's own integers are narrower than 64 bits.       *)
(***************************************************************************)
EXTENDS Integers, Sequences, FiniteSets, TLC

-----------------------------------------------------------------------------
(* 64-bit words as limb sequences *)

LimbBase == 256

WordBytes == 8

RECURSIVE Zeros(_)
Zeros(k) == IF k = 0 THEN <<>> ELSE <<0>> \o Zeros(k - 1)

\* a small natural as k limbs, least significant first
RECURSIVE NatToLimbs(_, _)
NatToLimbs(n, k) ==
    IF k = 0 THEN <<>> ELSE <<n % LimbBase>> \o NatToLimbs(n \div LimbBase, k - 1)

W(n) == NatToLimbs(n, WordBytes)

ZeroW == Zeros(WordBytes)

IsZero(a) == \A i \in 1..Len(a) : a[i] = 0

\* a + b + c over equal-length limb sequences, wrapping at the length
RECURSIVE AddLimbs(_, _, _)
AddLimbs(a, b, c) ==
    IF a = <<>> THEN <<>>
    ELSE LET s == Head(a) + Head(b) + c
         IN  <<s % LimbBase>> \o AddLimbs(Tail(a), Tail(b), s \div LimbBase)

NotLimbs(a) == [i \in 1..Len(a) |-> LimbBase - 1 - a[i]]

\* two's complement negation and subtraction, wrapping
NegLimbs(a) == AddLimbs(NotLimbs(a), Zeros(Len(a)), 1)

SubLimbs(a, b) == AddLimbs(a, NotLimbs(b), 1)

\* a * d + c for one limb d, keeping Len(a) limbs
RECURSIVE MulSmall(_, _, _)
MulSmall(a, d, c) ==
    IF a = <<>> THEN <<>>
    ELSE LET s == Head(a) * d + c
         IN  <<s % LimbBase>> \o MulSmall(Tail(a), d, s \div LimbBase)

\* the carry out of a * d + c
RECURSIVE MulSmallCarry(_, _, _)
MulSmallCarry(a, d, c) ==
    IF a = <<>> THEN c ELSE MulSmallCarry(Tail(a), d, (Head(a) * d + c) \div LimbBase)

Front(a) == SubSeq(a, 1, Len(a) - 1)

\* the low Len(a) limbs of a * b
RECURSIVE MulLimbs(_, _)
MulLimbs(a, b) ==
    IF a = <<>> THEN <<>>
    ELSE AddLimbs(MulSmall(a, Head(b), 0), <<0>> \o MulLimbs(Front(a), Tail(b)), 0)

\* unsigned a >= b, equal lengths: decided at the highest limb that differs
GeLimbs(a, b) ==
    LET D == {i \in 1..Len(a) : a[i] # b[i]}
    IN  \/ D = {}
        \/ LET m == CHOOSE i \in D : \A j \in D : j <= i
           IN  a[m] > b[m]

\* sign of a two's complement limb sequence
IsNeg(a) == a[Len(a)] >= LimbBase \div 2

Extend(a, k) == a \o Zeros(k - Len(a))

\* one quotient limb by restoring division: the multiples d * 2^bit are
\* subtracted from r from the largest down; r < d * LimbBase on entry
RECURSIVE DivDigit(_, _, _, _)
DivDigit(r, d, bit, qd) ==
    IF bit < 0 THEN [qd |-> qd, r |-> r]
    ELSE LET t == MulSmall(d, 2 ^ bit, 0)
         IN  IF GeLimbs(r, t)
             THEN DivDigit(SubLimbs(r, t), d, bit - 1, qd + 2 ^ bit)
             ELSE DivDigit(r, d, bit - 1, qd)

Reverse(a) == [i \in 1..Len(a) |-> a[Len(a) + 1 - i]]

\* schoolbook long division, bringing down the limbs of n from the top;
\* r (Len(d) limbs, top limb 0) is the running remainder, and the quotient
\* limbs come out most significant first
RECURSIVE DivLimbs(_, _, _)
DivLimbs(n, d, r) ==
    IF n = <<>> THEN [q |-> <<>>, r |-> r]
    ELSE LET st   == DivDigit(<<n[Len(n)]>> \o Front(r), d, 7, 0)
             rest == DivLimbs(Front(n), d, st.r)
         IN  [q |-> <<st.qd>> \o rest.q, r |-> rest.r]

\* unsigned n / d and n mod d, d # 0; q has Len(n) limbs, r has Len(d) limbs
UDivMod(n, d) ==
    LET k  == Len(d) + 1
        qr == DivLimbs(n, Extend(d, k), Zeros(k))
    IN  [q |-> Reverse(qr.q), r |-> SubSeq(qr.r, 1, Len(d))]

-----------------------------------------------------------------------------
(* TOKEN *)

Tok(kind) == [kind |-> kind, val |-> ZeroW]

IntTok(n) == [kind |-> "Int", val |-> n]

EOF == Tok("EOF")

\* std::mem::discriminant: the variant without its payload
discriminant(t) == t.kind

-----------------------------------------------------------------------------
(* LEXER: input is the Vec<char>, pos the 0-based cursor *)

\* Option<char>::None
None == "None"

DigitChars == <<"0", "1", "2", "3", "4", "5", "6", "7", "8", "9">>

is_ascii_digit(c) == \E i \in 1..Len(DigitChars) : DigitChars[i] = c

DigitVal(c) == (CHOOSE i \in 1..Len(DigitChars) : DigitChars[i] = c) - 1

is_whitespace(c) == c \in {" ", "\t", "\n", "\r"}

lexer_current(inp, p) == IF p < Len(inp) THEN inp[p + 1] ELSE None

advance(p) == p + 1

RECURSIVE skip_whitespace(_, _)
skip_whitespace(inp, p) ==
    IF lexer_current(inp, p) # None /\ is_whitespace(lexer_current(inp, p))
    THEN skip_whitespace(inp, advance(p))
    ELSE p

\* the end of the maximal run of ASCII digits starting at p
RECURSIVE DigitRunEnd(_, _)
DigitRunEnd(inp, p) ==
    IF lexer_current(inp, p) # None /\ is_ascii_digit(lexer_current(inp, p))
    THEN DigitRunEnd(inp, advance(p))
    ELSE p

\* str::parse::<i64> on a run of digits: acc * 10 + digit, an error as soon
\* as the value leaves 0 .. 2^63 - 1
RECURSIVE ParseI64(_, _)
ParseI64(digs, acc) ==
    IF digs = <<>> THEN [ok |-> TRUE, val |-> acc]
    ELSE LET d    == DigitVal(Head(digs))
             next == MulSmall(acc, 10, d)
         IN  IF MulSmallCarry(acc, 10, d) # 0 \/ IsNeg(next)
             THEN [ok |-> FALSE, val |-> ZeroW]
             ELSE ParseI64(Tail(digs), next)

LexResult(t, p, msg) == [tok |-> t, pos |-> p, panic |-> msg]

\* Lexer::integer, with the unwrap of the parse
integer(inp, p) ==
    LET e == DigitRunEnd(inp, p)
        r == ParseI64(SubSeq(inp, p + 1, e), ZeroW)
    IN  IF r.ok THEN LexResult(IntTok(r.val), e, "")
        ELSE LexResult(EOF, e, "ParseIntError")

Keyword == <<"p", "r", "i", "n", "t">>

starts_with(inp, p, word) ==
    /\ p + Len(word) <= Len(inp)
    /\ SubSeq(inp, p + 1, p + Len(word)) = word

\* the arm for 'p'
KeywordArmSkip(inp, p) ==
    IF starts_with(inp, p, Keyword)
    THEN LexResult(Tok("Print"), p, "")
    ELSE LexResult(EOF, p, "Unexpected token")

KeywordArm(inp, p) ==
    IF starts_with(inp, p, Keyword)
    THEN LexResult(Tok("Print"), p + 5, "")
    ELSE LexResult(EOF, p, "Unexpected token")

\* the arm for None
EofArmAdvance(p) == LexResult(EOF, advance(p), "")

EofArm(p) == LexResult(EOF, p, "")

PunctKind(c) ==
    CASE c = "+" -> "Plus"
      [] c = "-" -> "Minus"
      [] c = "*" -> "Mul"
      [] c = "/" -> "Div"
      [] c = "(" -> "LParen"
      [] c = ")" -> "RParen"
      [] c = ";" -> "Semi"
      [] OTHER   -> "None"

\* Lexer::next_token: the token, the cursor after it, and the panic message
\* ("" when the call returns)
next_token(inp, p0) ==
    LET p == skip_whitespace(inp, p0)
        c == lexer_current(inp, p)
    IN  CASE c = None -> EofArm(p)
          [] c # None /\ is_ascii_digit(c) -> integer(inp, p)
          [] PunctKind(c) # "None" -> LexResult(Tok(PunctKind(c)), advance(p), "")
          [] c = "p" -> KeywordArm(inp, p)
          [] OTHER -> LexResult(EOF, p, "Invalid character")

-----------------------------------------------------------------------------
(* AST *)

Num(n) == [tag |-> "Num", n |-> n]

BinOp(l, op, r) == [tag |-> "BinOp", left |-> l, op |-> op, right |-> r]

\* Stmt::Print
PrintStmt(e) == [tag |-> "Print", expr |-> e]

\* the value of a local that has not been assigned yet
NoExpr == [tag |-> "None"]

-----------------------------------------------------------------------------
(* CODEGEN: a line of output is a sequence whose head is the literal text  *)
(* and whose tail holds the characters a {} of format! contributed         *)

Line(text) == <<text>>

\* the decimal digits of an unsigned limb sequence, most significant first
RECURSIVE DecDigits(_)
DecDigits(a) ==
    LET qr == UDivMod(a, W(10))
    IN  (IF IsZero(qr.q) THEN <<>> ELSE DecDigits(qr.q))
            \o <<DigitChars[qr.r[1] + 1]>>

\* Display for i64, as format!("{}", n) writes it
FormatI64(n) ==
    IF IsNeg(n) THEN <<"-">> \o DecDigits(NegLimbs(n)) ELSE DecDigits(n)

MovRaxImm == "    mov rax, "

\* the arms of `match op`
OpLines(op) ==
    CASE op = "Plus"  -> <<Line("    add rax, rbx")>>
      [] op = "Minus" -> <<Line("    sub rbx, rax"), Line("    mov rax, rbx")>>
      [] op = "Mul"   -> <<Line("    imul rax, rbx")>>
      [] op = "Div"   -> <<Line("    mov rdx, 0"), Line("    mov rcx, rax"),
                           Line("    mov rax, rbx"), Line("    idiv rcx")>>
      [] OTHER        -> <<>>

\* the BinOp arm with a push that no pop matches
BinOpLinesUnbalanced(l, op, r) ==
    l \o <<Line("    push rax")>> \o r \o <<Line("    push rax"), Line("    pop rbx")>>
      \o OpLines(op)

\* the BinOp arm, given the lines of the two operands
BinOpLines(l, op, r) ==
    l \o <<Line("    push rax")>> \o r \o <<Line("    pop rbx")>> \o OpLines(op)

RECURSIVE gen_expr(_)
gen_expr(e) ==
    IF e.tag = "Num" THEN <<<<MovRaxImm>> \o FormatI64(e.n)>>
    ELSE BinOpLines(gen_expr(e.left), e.op, gen_expr(e.right))

gen_stmt(st) ==
    gen_expr(st.expr) \o <<Line("    mov rdi, rax"), Line("    call print_int")>>

\* the loop over program.stmts, last statement first
RECURSIVE GenStmtsReversed(_)
GenStmtsReversed(ss) ==
    IF ss = <<>> THEN <<>> ELSE GenStmtsReversed(Tail(ss)) \o gen_stmt(Head(ss))

\* the loop over program.stmts
RECURSIVE GenStmts(_)
GenStmts(ss) ==
    IF ss = <<>> THEN <<>> ELSE gen_stmt(Head(ss)) \o GenStmts(Tail(ss))

Header == <<Line("global _start"), Line("section .text")>>

\* print_int with the store ahead of the decrement
PrintIntStoreFirst ==
    << Line("print_int:"),
       Line("    mov rcx, buffer+20"),
       Line("    mov rbx, 10"),
       Line("    mov rax, rdi"),
       Line("convert:"),
       Line("    xor rdx, rdx"),
       Line("    div rbx"),
       Line("    add dl, '0'"),
       Line("    mov [rcx], dl"),
       Line("    dec rcx"),
       Line("    test rax, rax"),
       Line("    jnz convert"),
       Line("    mov rax, 1"),
       Line("    mov rdi, 1"),
       Line("    mov rsi, rcx"),
       Line("    mov rdx, buffer+20"),
       Line("    sub rdx, rcx"),
       Line("    syscall"),
       Line("    mov rax, 1"),
       Line("    mov rdi, 1"),
       Line("    mov rsi, newline"),
       Line("    mov rdx, 1"),
       Line("    syscall"),
       Line("    ret") >>

PrintInt ==
    << Line("print_int:"),
       Line("    mov rcx, buffer+20"),
       Line("    mov rbx, 10"),
       Line("    mov rax, rdi"),
       Line("convert:"),
       Line("    xor rdx, rdx"),
       Line("    div rbx"),
       Line("    add dl, '0'"),
       Line("    dec rcx"),
       Line("    mov [rcx], dl"),
       Line("    test rax, rax"),
       Line("    jnz convert"),
       Line("    mov rax, 1"),
       Line("    mov rdi, 1"),
       Line("    mov rsi, rcx"),
       Line("    mov rdx, buffer+20"),
       Line("    sub rdx, rcx"),
       Line("    syscall"),
       Line("    mov rax, 1"),
       Line("    mov rdi, 1"),
       Line("    mov rsi, newline"),
       Line("    mov rdx, 1"),
       Line("    syscall"),
       Line("    ret") >>

Preamble == Header \o PrintInt \o <<Line("_start:")>>

Epilogue ==
    <<Line("    mov rax, 60"), Line("    xor rdi, rdi"), Line("    syscall")>>

DataDecls ==
    << Line("section .bss"), Line("buffer resb 21"),
       Line("section .data"), Line("newline db 10") >>

\* CodeGen::generate
generate(ss) == Preamble \o GenStmts(ss) \o Epilogue \o DataDecls

-----------------------------------------------------------------------------
(* State *)

VARIABLES
    argv,      \* "none": no file argument; "missing": unreadable; "file"
    source,    \* the characters of the source file
    mainpc,    \* where main is
    panic,     \* the panic message once the process has aborted, else ""
    input,     \* Lexer.input
    pos,       \* Lexer.pos
    current,   \* Parser.current, the lookahead token
    tokens,    \* history: every token next_token has returned, in order
    stack,     \* the parser's call stack: frames [fn, pc, node, op]
    ret,       \* the value the last parser call returned
    stmts,     \* the Vec<Stmt> Parser::program is building / Program.stmts
    output,    \* CodeGen.output, as a sequence of lines
    file,      \* out.asm: <<>> while it does not exist, else <<its lines>>
    mpc,       \* the machine running out.asm: "off", "run", "exit", "fault"
    ip,        \* index of the next line to execute
    regs,      \* rax rbx rcx rdx rdi rsi
    zf,        \* the zero flag
    mstack,    \* the machine stack above its depth at _start
    buffer,    \* the bytes of `buffer`
    stdout,    \* the bytes written to file descriptor 1
    oob,       \* a store or read has left `buffer` / `newline`
    printed    \* history: the value of rdi at each call of print_int

frontvars == <<input, pos, current, tokens, stack, ret, stmts>>

mvars == <<mpc, ip, regs, zf, mstack, buffer, stdout, oob, printed>>

vars == <<argv, source, mainpc, panic, frontvars, output, file, mvars>>

-----------------------------------------------------------------------------
(* The x86-64 machine that runs the assembled out.asm *)

RegNames == {"rax", "rbx", "rcx", "rdx", "rdi", "rsi"}

\* where the linker puts `newline` (section .data) and `buffer` (section .bss)
NewlineAddr == 4202496

BufferAddr == 4202500

\* buffer resb 21
BufferSize == 21

\* the assembler's reading of a decimal immediate, wrapping at 64 bits
RECURSIVE ParseDec(_, _)
ParseDec(digs, acc) ==
    IF digs = <<>> THEN acc
    ELSE ParseDec(Tail(digs), MulSmall(acc, 10, DigitVal(Head(digs))))

ParseImm(chars) ==
    IF Head(chars) = "-" THEN NegLimbs(ParseDec(Tail(chars), ZeroW))
    ELSE ParseDec(chars, ZeroW)

Ins(op, dst, src, imm) == [op |-> op, dst |-> dst, src |-> src, imm |-> imm]

\* the instruction a line of out.asm assembles to; src = "" marks an immediate
Decode(line) ==
    LET t == Head(line)
    IN  CASE t = MovRaxImm               -> Ins("mov", "rax", "", ParseImm(Tail(line)))
          [] t = "    push rax"          -> Ins("push", "", "rax", ZeroW)
          [] t = "    pop rbx"           -> Ins("pop", "rbx", "", ZeroW)
          [] t = "    add rax, rbx"      -> Ins("add", "rax", "rbx", ZeroW)
          [] t = "    sub rbx, rax"      -> Ins("sub", "rbx", "rax", ZeroW)
          [] t = "    mov rax, rbx"      -> Ins("mov", "rax", "rbx", ZeroW)
          [] t = "    imul rax, rbx"     -> Ins("imul", "rax", "rbx", ZeroW)
          [] t = "    mov rdx, 0"        -> Ins("mov", "rdx", "", W(0))
          [] t = "    mov rcx, rax"      -> Ins("mov", "rcx", "rax", ZeroW)
          [] t = "    idiv rcx"          -> Ins("idiv", "", "rcx", ZeroW)
          [] t = "    mov rdi, rax"      -> Ins("mov", "rdi", "rax", ZeroW)
          [] t = "    call print_int"    -> Ins("call", "", "print_int:", ZeroW)
          [] t = "    mov rcx, buffer+20" -> Ins("mov", "rcx", "", W(BufferAddr + 20))
          [] t = "    mov rbx, 10"       -> Ins("mov", "rbx", "", W(10))
          [] t = "    mov rax, rdi"      -> Ins("mov", "rax", "rdi", ZeroW)
          [] t = "    xor rdx, rdx"      -> Ins("xor", "rdx", "rdx", ZeroW)
          [] t = "    div rbx"           -> Ins("div", "", "rbx", ZeroW)
          [] t = "    add dl, '0'"       -> Ins("addb", "rdx", "", W(48))
          [] t = "    dec rcx"           -> Ins("dec", "rcx", "", ZeroW)
          [] t = "    mov [rcx], dl"     -> Ins("store", "rcx", "rdx", ZeroW)
          [] t = "    test rax, rax"     -> Ins("test", "rax", "rax", ZeroW)
          [] t = "    jnz convert"       -> Ins("jnz", "", "convert:", ZeroW)
          [] t = "    mov rax, 1"        -> Ins("mov", "rax", "", W(1))
          [] t = "    mov rdi, 1"        -> Ins("mov", "rdi", "", W(1))
          [] t = "    mov rsi, rcx"      -> Ins("mov", "rsi", "rcx", ZeroW)
          [] t = "    mov rdx, buffer+20" -> Ins("mov", "rdx", "", W(BufferAddr + 20))
          [] t = "    sub rdx, rcx"      -> Ins("sub", "rdx", "rcx", ZeroW)
          [] t = "    syscall"           -> Ins("syscall", "", "", ZeroW)
          [] t = "    mov rsi, newline"  -> Ins("mov", "rsi", "", W(NewlineAddr))
          [] t = "    mov rdx, 1"        -> Ins("mov", "rdx", "", W(1))
          [] t = "    ret"               -> Ins("ret", "", "", ZeroW)
          [] t = "    mov rax, 60"       -> Ins("mov", "rax", "", W(60))
          [] t = "    xor rdi, rdi"      -> Ins("xor", "rdi", "rdi", ZeroW)
          [] OTHER                       -> Ins("none", "", "", ZeroW)

\* the index of the line holding `label`
LabelIndex(lines, label) == CHOOSE i \in 1..Len(lines) : lines[i] = Line(label)

\* the first instruction at or after line i: labels and directives assemble
\* to nothing
RECURSIVE NextInstr(_, _)
NextInstr(lines, i) ==
    IF i <= Len(lines) /\ Decode(lines[i]).op = "none"
    THEN NextInstr(lines, i + 1)
    ELSE i

\* a word as a small natural, -1 when it is not below 2^31
Small(a) ==
    IF a[5] = 0 /\ a[6] = 0 /\ a[7] = 0 /\ a[8] = 0 /\ a[4] < 128
    THEN a[1] + 256 * a[2] + 65536 * a[3] + 16777216 * a[4]
    ELSE -1

InBuffer(x) == BufferAddr <= x /\ x < BufferAddr + BufferSize

Mapped(x) == InBuffer(x) \/ x = NewlineAddr

MemByte(buf, x) == IF InBuffer(x) THEN buf[x - BufferAddr + 1] ELSE 10

\* idiv src: rdx:rax, signed, divided by src; a zero divisor or a quotient
\* outside the signed 64-bit range raises #DE
Idiv(hi, lo, d) ==
    LET n    == lo \o hi
        nneg == IsNeg(n)
        dneg == IsNeg(d)
        qr   == UDivMod(IF nneg THEN NegLimbs(n) ELSE n,
                        IF dneg THEN NegLimbs(d) ELSE d)
        qlo  == SubSeq(qr.q, 1, WordBytes)
        qhi  == SubSeq(qr.q, WordBytes + 1, 2 * WordBytes)
        fits == /\ IsZero(qhi)
                /\ IF nneg # dneg
                   THEN ~IsNeg(qlo) \/ (qlo = NegLimbs(qlo))
                   ELSE ~IsNeg(qlo)
    IN  IF IsZero(d) \/ ~fits THEN [fault |-> TRUE, q |-> ZeroW, r |-> ZeroW]
        ELSE [fault |-> FALSE,
              q |-> IF nneg # dneg THEN NegLimbs(qlo) ELSE qlo,
              r |-> IF nneg THEN NegLimbs(qr.r) ELSE qr.r]

\* div src: rdx:rax, unsigned, divided by src; #DE on a zero divisor or a
\* quotient that does not fit 64 bits
Div(hi, lo, d) ==
    LET qr == UDivMod(lo \o hi, d)
    IN  IF IsZero(d) \/ ~IsZero(SubSeq(qr.q, WordBytes + 1, 2 * WordBytes))
        THEN [fault |-> TRUE, q |-> ZeroW, r |-> ZeroW]
        ELSE [fault |-> FALSE, q |-> SubSeq(qr.q, 1, WordBytes), r |-> qr.r]

-----------------------------------------------------------------------------
(* The source files the model compiles *)

\* print 2+3;
SrcAdd ==
    <<"p", "r", "i", "n", "t", " ", "2", "+", "3", ";">>

\* print 2+3*4;
SrcPrec ==
    <<"p", "r", "i", "n", "t", " ", "2", "+", "3", "*", "4", ";">>

\* print (1+2)*3;
SrcParen ==
    <<"p", "r", "i", "n", "t", " ", "(", "1", "+", "2", ")", "*", "3", ";">>

\* print 7/2;
SrcDivTrunc ==
    <<"p", "r", "i", "n", "t", " ", "7", "/", "2", ";">>

\* print 8-3-2;
SrcLeftAssoc ==
    <<"p", "r", "i", "n", "t", " ", "8", "-", "3", "-", "2", ";">>

\* print 24/4/2*3;
SrcDivAssoc ==
    <<"p", "r", "i", "n", "t", " ", "2", "4", "/", "4", "/", "2", "*", "3", ";">>

\* print (1-8)/2;
SrcNegDiv ==
    <<"p", "r", "i", "n", "t", " ", "(", "1", "-", "8", ")", "/", "2", ";">>

\* print 1-8;
SrcNeg ==
    <<"p", "r", "i", "n", "t", " ", "1", "-", "8", ";">>

\* print 0;
SrcZero ==
    <<"p", "r", "i", "n", "t", " ", "0", ";">>

\* print 0-1;
SrcMinusOne ==
    <<"p", "r", "i", "n", "t", " ", "0", "-", "1", ";">>

\* print 1;\nprint 20 ;\tprint 300;
SrcThree ==
    <<"p", "r", "i", "n", "t", " ", "1", ";", "\n", "p", "r", "i", "n", "t", " ", "2", "0", " ", ";", "\t", "p", "r", "i", "n", "t", " ", "3", "0", "0", ";">>

\* print 2*(3+(4-1))*5;
SrcNested ==
    <<"p", "r", "i", "n", "t", " ", "2", "*", "(", "3", "+", "(", "4", "-", "1", ")", ")", "*", "5", ";">>

\* print 1+(2+(3+(4+5)));
SrcDeepRight ==
    <<"p", "r", "i", "n", "t", " ", "1", "+", "(", "2", "+", "(", "3", "+", "(", "4", "+", "5", ")", ")", ")", ";">>

\* print 1/0;
SrcDivZero ==
    <<"p", "r", "i", "n", "t", " ", "1", "/", "0", ";">>

\* print 9223372036854775807;
SrcMax ==
    <<"p", "r", "i", "n", "t", " ", "9", "2", "2", "3", "3", "7", "2", "0", "3", "6", "8", "5", "4", "7", "7", "5", "8", "0", "7", ";">>

\* print 9223372036854775807*2+007;
SrcMulWrap ==
    <<"p", "r", "i", "n", "t", " ", "9", "2", "2", "3", "3", "7", "2", "0", "3", "6", "8", "5", "4", "7", "7", "5", "8", "0", "7", "*", "2", "+", "0", "0", "7", ";">>

\* 
SrcEmpty ==
    <<>>

\*  \n
SrcBlank ==
    <<" ", "\n">>

\* print1+2;print(3);
SrcNoSpace ==
    <<"p", "r", "i", "n", "t", "1", "+", "2", ";", "p", "r", "i", "n", "t", "(", "3", ")", ";">>

\* print 9223372036854775808;
SrcOverflow ==
    <<"p", "r", "i", "n", "t", " ", "9", "2", "2", "3", "3", "7", "2", "0", "3", "6", "8", "5", "4", "7", "7", "5", "8", "0", "8", ";">>

\* print 2+3
SrcNoSemi ==
    <<"p", "r", "i", "n", "t", " ", "2", "+", "3">>

\* print 1; print 2
SrcNoSemi2 ==
    <<"p", "r", "i", "n", "t", " ", "1", ";", " ", "p", "r", "i", "n", "t", " ", "2">>

\* print 2 % 3;
SrcBadChar ==
    <<"p", "r", "i", "n", "t", " ", "2", " ", "%", " ", "3", ";">>

\* print 1; print 2; x
SrcBadCharLate ==
    <<"p", "r", "i", "n", "t", " ", "1", ";", " ", "p", "r", "i", "n", "t", " ", "2", ";", " ", "x">>

\* pront 1;
SrcBadKeyword ==
    <<"p", "r", "o", "n", "t", " ", "1", ";">>

\* print 1; pri
SrcShortKeyword ==
    <<"p", "r", "i", "n", "t", " ", "1", ";", " ", "p", "r", "i">>

\* print ;
SrcNoExpr ==
    <<"p", "r", "i", "n", "t", " ", ";">>

\* print 2+;
SrcDangling ==
    <<"p", "r", "i", "n", "t", " ", "2", "+", ";">>

\* print (2;
SrcUnclosed ==
    <<"p", "r", "i", "n", "t", " ", "(", "2", ";">>

\* 2;
SrcNoPrint ==
    <<"2", ";">>

\* print 2 3;
SrcTwoInts ==
    <<"p", "r", "i", "n", "t", " ", "2", " ", "3", ";">>

\* print 1);
SrcStray ==
    <<"p", "r", "i", "n", "t", " ", "1", ")", ";">>

\* print -1;
SrcUnaryMinus ==
    <<"p", "r", "i", "n", "t", " ", "-", "1", ";">>

Sources ==
    {SrcAdd, SrcPrec, SrcParen, SrcDivTrunc, SrcLeftAssoc,
     SrcDivAssoc, SrcNegDiv, SrcNeg, SrcZero, SrcMinusOne,
     SrcThree, SrcNested, SrcDeepRight, SrcDivZero, SrcMax,
     SrcMulWrap, SrcEmpty, SrcBlank, SrcNoSpace, SrcOverflow,
     SrcNoSemi, SrcNoSemi2, SrcBadChar, SrcBadCharLate, SrcBadKeyword,
     SrcShortKeyword, SrcNoExpr, SrcDangling, SrcUnclosed, SrcNoPrint,
     SrcTwoInts, SrcStray, SrcUnaryMinus}

-----------------------------------------------------------------------------
(* MAIN and PARSER *)

MachineOff ==
    /\ mpc = "off"
    /\ ip = 0
    /\ regs = [r \in RegNames |-> ZeroW]
    /\ zf = FALSE
    /\ mstack = <<>>
    /\ buffer = Zeros(BufferSize)
    /\ stdout = <<>>
    /\ oob = FALSE
    /\ printed = <<>>

Init ==
    /\ argv \in {"none", "missing", "file"}
    /\ source \in (IF argv = "file" THEN Sources ELSE {<<>>})
    /\ mainpc = "args"
    /\ panic = ""
    /\ input = <<>>
    /\ pos = 0
    /\ current = EOF
    /\ tokens = <<>>
    /\ stack = <<>>
    /\ ret = NoExpr
    /\ stmts = <<>>
    /\ output = <<>>
    /\ file = <<>>
    /\ MachineOff

\* main with no file argument: the usage message, and return
MainUsage ==
    /\ mainpc = "args"
    /\ argv = "none"
    /\ mainpc' = "usage"
    /\ UNCHANGED <<argv, source, panic, frontvars, output, file, mvars>>

\* fs::read_to_string(..).unwrap() and Lexer::new
MainRead ==
    /\ mainpc = "args"
    /\ argv # "none"
    /\ IF argv = "missing"
       THEN /\ mainpc' = "panicked"
            /\ panic' = "read_to_string"
            /\ UNCHANGED <<input, pos>>
       ELSE /\ mainpc' = "new"
            /\ panic' = panic
            /\ input' = source
            /\ pos' = 0
    /\ UNCHANGED <<argv, source, current, tokens, stack, ret, stmts, output, file, mvars>>

Frame(fn) == [fn |-> fn, pc |-> "start", node |-> NoExpr, op |-> ""]

Top == stack[Len(stack)]

Pop == SubSeq(stack, 1, Len(stack) - 1)

\* the stack with its top frame replaced
SetTop(f) == Append(Pop, f)

At(fn, pc) ==
    /\ mainpc = "program"
    /\ stack # <<>>
    /\ Top.fn = fn
    /\ Top.pc = pc

\* Parser::new: the first token becomes the lookahead
ParserNew ==
    /\ mainpc = "new"
    /\ LET r == next_token(input, pos)
       IN  IF r.panic # ""
           THEN /\ mainpc' = "panicked"
                /\ panic' = r.panic
                /\ UNCHANGED <<pos, current, tokens, stack>>
           ELSE /\ mainpc' = "program"
                /\ panic' = panic
                /\ pos' = r.pos
                /\ current' = r.tok
                /\ tokens' = Append(tokens, r.tok)
                /\ stack' = <<Frame("program")>>
    /\ UNCHANGED <<argv, source, input, ret, stmts, output, file, mvars>>

\* the comparison in eat that accepts every token
EatLax(cur, expected) == TRUE

\* the comparison of discriminants in eat
EatOk(cur, expected) == discriminant(cur) = expected

\* Parser::eat: the lexer's answer for the next lookahead, or the panic
eat(expected) ==
    IF EatOk(current, expected) THEN next_token(input, pos)
    ELSE LexResult(current, pos, "Unexpected token")

\* a step that consumes no token
NoEat == LexResult(current, pos, "")

\* one step of the parser: r is the outcome of its eat (NoEat when it has
\* none), st the call stack after it, rv the value it returns, ss the
\* statements collected
ParserStep(r, ate, st, rv, ss) ==
    /\ IF r.panic # ""
       THEN /\ mainpc' = "panicked"
            /\ panic' = r.panic
            /\ UNCHANGED frontvars
       ELSE /\ UNCHANGED <<mainpc, panic, input>>
            /\ pos' = r.pos
            /\ current' = r.tok
            /\ tokens' = IF ate THEN Append(tokens, r.tok) ELSE tokens
            /\ stack' = st
            /\ ret' = rv
            /\ stmts' = ss
    /\ UNCHANGED <<argv, source, output, file, mvars>>

\* Parser::program: the loop condition holds, statement() is called
ProgramCallStatement ==
    /\ At("program", "start")
    /\ current # EOF
    /\ ParserStep(NoEat, FALSE,
                  Append(SetTop([Top EXCEPT !.pc = "push"]), Frame("statement")),
                  ret, stmts)

\* stmts.push(..) with the statement returned
ProgramPush ==
    /\ At("program", "push")
    /\ ParserStep(NoEat, FALSE, SetTop([Top EXCEPT !.pc = "start"]), ret,
                  Append(stmts, ret))

\* the loop ends at Token::EOF and program() returns to main
ProgramReturn ==
    /\ At("program", "start")
    /\ current = EOF
    /\ mainpc' = "generate"
    /\ stack' = Pop
    /\ UNCHANGED <<argv, source, panic, input, pos, current, tokens, ret, stmts,
                   output, file, mvars>>

\* Parser::statement: eat(Print), then expr()
StatementBegin ==
    /\ At("statement", "start")
    /\ ParserStep(eat("Print"), TRUE,
                  Append(SetTop([Top EXCEPT !.pc = "semi"]), Frame("expr")),
                  ret, stmts)

\* eat(Semi) and return Stmt::Print(expr)
StatementEnd ==
    /\ At("statement", "semi")
    /\ ParserStep(eat("Semi"), TRUE, Pop, PrintStmt(ret), stmts)

\* node = BinOp(rhs, op, node): the operands the wrong way round
FoldNodeSwapped(node, op, rhs) == BinOp(rhs, op, node)

\* node = Expr::BinOp(Box::new(node), op, Box::new(rhs))
FoldNode(node, op, rhs) == BinOp(node, op, rhs)

\* Parser::expr: let mut node = self.term()
ExprEnter ==
    /\ At("expr", "start")
    /\ ParserStep(NoEat, FALSE,
                  Append(SetTop([Top EXCEPT !.pc = "first"]), Frame("term")),
                  ret, stmts)

ExprFirst ==
    /\ At("expr", "first")
    /\ ParserStep(NoEat, FALSE, SetTop([Top EXCEPT !.pc = "loop", !.node = ret]),
                  ret, stmts)

\* the arm Token::Plus: eat it and call term() for the right operand
ExprLoopPlus ==
    /\ At("expr", "loop")
    /\ current.kind = "Plus"
    /\ ParserStep(eat("Plus"), TRUE,
                  Append(SetTop([Top EXCEPT !.pc = "fold", !.op = "Plus"]),
                         Frame("term")),
                  ret, stmts)

\* the arm Token::Minus
ExprLoopMinus ==
    /\ At("expr", "loop")
    /\ current.kind = "Minus"
    /\ ParserStep(eat("Minus"), TRUE,
                  Append(SetTop([Top EXCEPT !.pc = "fold", !.op = "Minus"]),
                         Frame("term")),
                  ret, stmts)

\* the right operand has been parsed: fold it into node
ExprFold ==
    /\ At("expr", "fold")
    /\ ParserStep(NoEat, FALSE,
                  SetTop([Top EXCEPT !.pc = "loop",
                                     !.node = FoldNode(Top.node, Top.op, ret)]),
                  ret, stmts)

\* the arm _ => break, and return node
ExprLoopBreak ==
    /\ At("expr", "loop")
    /\ current.kind \notin {"Plus", "Minus"}
    /\ ParserStep(NoEat, FALSE, Pop, Top.node, stmts)

\* Parser::term: let mut node = self.factor()
TermEnter ==
    /\ At("term", "start")
    /\ ParserStep(NoEat, FALSE,
                  Append(SetTop([Top EXCEPT !.pc = "first"]), Frame("factor")),
                  ret, stmts)

TermFirst ==
    /\ At("term", "first")
    /\ ParserStep(NoEat, FALSE, SetTop([Top EXCEPT !.pc = "loop", !.node = ret]),
                  ret, stmts)

\* the arm Token::Mul
TermLoopMul ==
    /\ At("term", "loop")
    /\ current.kind = "Mul"
    /\ ParserStep(eat("Mul"), TRUE,
                  Append(SetTop([Top EXCEPT !.pc = "fold", !.op = "Mul"]),
                         Frame("factor")),
                  ret, stmts)

\* the arm Token::Div
TermLoopDiv ==
    /\ At("term", "loop")
    /\ current.kind = "Div"
    /\ ParserStep(eat("Div"), TRUE,
                  Append(SetTop([Top EXCEPT !.pc = "fold", !.op = "Div"]),
                         Frame("factor")),
                  ret, stmts)

TermFold ==
    /\ At("term", "fold")
    /\ ParserStep(NoEat, FALSE,
                  SetTop([Top EXCEPT !.pc = "loop",
                                     !.node = FoldNode(Top.node, Top.op, ret)]),
                  ret, stmts)

TermLoopBreak ==
    /\ At("term", "loop")
    /\ current.kind \notin {"Mul", "Div"}
    /\ ParserStep(NoEat, FALSE, Pop, Top.node, stmts)

\* Parser::factor, the arm Token::Int(n)
FactorInt ==
    /\ At("factor", "start")
    /\ current.kind = "Int"
    /\ ParserStep(eat("Int"), TRUE, Pop, Num(current.val), stmts)

\* the arm Token::LParen: eat it and call expr()
FactorLParen ==
    /\ At("factor", "start")
    /\ current.kind = "LParen"
    /\ ParserStep(eat("LParen"), TRUE,
                  Append(SetTop([Top EXCEPT !.pc = "rparen"]), Frame("expr")),
                  ret, stmts)

\* eat(RParen) and return the inner expression
FactorRParen ==
    /\ At("factor", "rparen")
    /\ ParserStep(eat("RParen"), TRUE, Pop, ret, stmts)

\* the arm _ => panic!("Expected number")
FactorPanic ==
    /\ At("factor", "start")
    /\ current.kind \notin {"Int", "LParen"}
    /\ ParserStep(LexResult(current, pos, "Expected number"), FALSE, stack, ret, stmts)

\* CodeGen::new().generate(program)
Generate ==
    /\ mainpc = "generate"
    /\ output' = generate(stmts)
    /\ mainpc' = "write"
    /\ UNCHANGED <<argv, source, panic, frontvars, file, mvars>>

\* fs::write("out.asm", asm) and the closing message
WriteFile ==
    /\ mainpc = "write"
    /\ file' = output
    /\ mainpc' = "done"
    /\ UNCHANGED <<argv, source, panic, frontvars, output, mvars>>

MainStep == MainUsage \/ MainRead \/ ParserNew \/ Generate \/ WriteFile

ParseStep ==
    \/ ProgramCallStatement \/ ProgramPush \/ ProgramReturn
    \/ StatementBegin \/ StatementEnd
    \/ ExprEnter \/ ExprFirst \/ ExprLoopPlus \/ ExprLoopMinus \/ ExprFold
    \/ ExprLoopBreak
    \/ TermEnter \/ TermFirst \/ TermLoopMul \/ TermLoopDiv \/ TermFold
    \/ TermLoopBreak
    \/ FactorInt \/ FactorLParen \/ FactorRParen \/ FactorPanic

-----------------------------------------------------------------------------
(* Execution of out.asm, one instruction per step *)

mainvars == <<argv, source, mainpc, panic, frontvars, output, file>>

Word(w) == [kind |-> "word", w |-> w, ret |-> 0]

RetAddr(i) == [kind |-> "ret", w |-> ZeroW, ret |-> i]

Cur == Decode(file[ip])

Running(op) ==
    /\ mpc = "run"
    /\ ip <= Len(file)
    /\ Cur.op = op

\* the source operand: a register, or the immediate
Val(i) == IF i.src = "" THEN i.imm ELSE regs[i.src]

Fall == NextInstr(file, ip + 1)

RECURSIVE XorNat(_, _)
XorNat(a, b) ==
    IF a = 0 /\ b = 0 THEN 0
    ELSE ((a + b) % 2) + 2 * XorNat(a \div 2, b \div 2)

RECURSIVE AndNat(_, _)
AndNat(a, b) ==
    IF a = 0 \/ b = 0 THEN 0
    ELSE ((a % 2) * (b % 2)) + 2 * AndNat(a \div 2, b \div 2)

XorLimbs(a, b) == [i \in 1..Len(a) |-> XorNat(a[i], b[i])]

AndLimbs(a, b) == [i \in 1..Len(a) |-> AndNat(a[i], b[i])]

\* the values the kernel may leave in rcx on return from a syscall
SyscallClobbers == {W(0), NotLimbs(W(0))}

\* nasm, ld and exec: the process starts at _start with `buffer` zeroed
MachineStart ==
    /\ mainpc = "done"
    /\ mpc = "off"
    /\ mpc' = "run"
    /\ ip' = NextInstr(file, LabelIndex(file, "_start:"))
    /\ UNCHANGED <<mainvars, printed, regs, zf, mstack, buffer, stdout, oob>>

ExecMov ==
    /\ Running("mov")
    /\ regs' = [regs EXCEPT ![Cur.dst] = Val(Cur)]
    /\ ip' = Fall
    /\ UNCHANGED <<mainvars, printed, mpc, zf, mstack, buffer, stdout, oob>>

ExecPush ==
    /\ Running("push")
    /\ mstack' = Append(mstack, Word(regs[Cur.src]))
    /\ ip' = Fall
    /\ UNCHANGED <<mainvars, printed, mpc, regs, zf, buffer, stdout, oob>>

\* a pop of anything but a pushed word leaves the modelled stack
ExecPop ==
    /\ Running("pop")
    /\ IF mstack # <<>> /\ mstack[Len(mstack)].kind = "word"
       THEN /\ regs' = [regs EXCEPT ![Cur.dst] = mstack[Len(mstack)].w]
            /\ mstack' = SubSeq(mstack, 1, Len(mstack) - 1)
            /\ ip' = Fall
            /\ mpc' = mpc
       ELSE /\ mpc' = "fault"
            /\ UNCHANGED <<regs, mstack, ip>>
    /\ UNCHANGED <<mainvars, printed, zf, buffer, stdout, oob>>

ExecAdd ==
    /\ Running("add")
    /\ LET v == AddLimbs(regs[Cur.dst], Val(Cur), 0)
       IN  /\ regs' = [regs EXCEPT ![Cur.dst] = v]
           /\ zf' = IsZero(v)
    /\ ip' = Fall
    /\ UNCHANGED <<mainvars, printed, mpc, mstack, buffer, stdout, oob>>

ExecSub ==
    /\ Running("sub")
    /\ LET v == SubLimbs(regs[Cur.dst], Val(Cur))
       IN  /\ regs' = [regs EXCEPT ![Cur.dst] = v]
           /\ zf' = IsZero(v)
    /\ ip' = Fall
    /\ UNCHANGED <<mainvars, printed, mpc, mstack, buffer, stdout, oob>>

\* imul leaves ZF undefined
ExecImul ==
    /\ Running("imul")
    /\ regs' = [regs EXCEPT ![Cur.dst] = MulLimbs(regs[Cur.dst], Val(Cur))]
    /\ zf' \in BOOLEAN
    /\ ip' = Fall
    /\ UNCHANGED <<mainvars, printed, mpc, mstack, buffer, stdout, oob>>

\* idiv: #DE kills the process; the flags are undefined afterwards
ExecIdiv ==
    /\ Running("idiv")
    /\ LET d == Idiv(regs["rdx"], regs["rax"], Val(Cur))
       IN  IF d.fault
           THEN /\ mpc' = "fault"
                /\ UNCHANGED <<regs, zf, ip>>
           ELSE /\ regs' = [regs EXCEPT !["rax"] = d.q, !["rdx"] = d.r]
                /\ zf' \in BOOLEAN
                /\ ip' = Fall
                /\ mpc' = mpc
    /\ UNCHANGED <<mainvars, printed, mstack, buffer, stdout, oob>>

ExecDiv ==
    /\ Running("div")
    /\ LET d == Div(regs["rdx"], regs["rax"], Val(Cur))
       IN  IF d.fault
           THEN /\ mpc' = "fault"
                /\ UNCHANGED <<regs, zf, ip>>
           ELSE /\ regs' = [regs EXCEPT !["rax"] = d.q, !["rdx"] = d.r]
                /\ zf' \in BOOLEAN
                /\ ip' = Fall
                /\ mpc' = mpc
    /\ UNCHANGED <<mainvars, printed, mstack, buffer, stdout, oob>>

ExecXor ==
    /\ Running("xor")
    /\ LET v == XorLimbs(regs[Cur.dst], Val(Cur))
       IN  /\ regs' = [regs EXCEPT ![Cur.dst] = v]
           /\ zf' = IsZero(v)
    /\ ip' = Fall
    /\ UNCHANGED <<mainvars, printed, mpc, mstack, buffer, stdout, oob>>

\* add dl, imm8: the low byte alone, the carry is not propagated
ExecAddByte ==
    /\ Running("addb")
    /\ LET v == (regs[Cur.dst][1] + Cur.imm[1]) % LimbBase
       IN  /\ regs' = [regs EXCEPT ![Cur.dst][1] = v]
           /\ zf' = (v = 0)
    /\ ip' = Fall
    /\ UNCHANGED <<mainvars, printed, mpc, mstack, buffer, stdout, oob>>

ExecDec ==
    /\ Running("dec")
    /\ LET v == SubLimbs(regs[Cur.dst], W(1))
       IN  /\ regs' = [regs EXCEPT ![Cur.dst] = v]
           /\ zf' = IsZero(v)
    /\ ip' = Fall
    /\ UNCHANGED <<mainvars, printed, mpc, mstack, buffer, stdout, oob>>

\* mov [rcx], dl: a store outside `buffer` is recorded and ends the run
ExecStore ==
    /\ Running("store")
    /\ LET a == Small(regs[Cur.dst])
       IN  IF InBuffer(a)
           THEN /\ buffer' = [buffer EXCEPT ![a - BufferAddr + 1] = regs[Cur.src][1]]
                /\ ip' = Fall
                /\ UNCHANGED <<mpc, oob>>
           ELSE /\ oob' = TRUE
                /\ mpc' = "fault"
                /\ UNCHANGED <<buffer, ip>>
    /\ UNCHANGED <<mainvars, printed, regs, zf, mstack, stdout>>

ExecTest ==
    /\ Running("test")
    /\ zf' = IsZero(AndLimbs(regs[Cur.dst], Val(Cur)))
    /\ ip' = Fall
    /\ UNCHANGED <<mainvars, printed, mpc, regs, mstack, buffer, stdout, oob>>

ExecJnz ==
    /\ Running("jnz")
    /\ ip' = IF zf THEN Fall ELSE NextInstr(file, LabelIndex(file, Cur.src))
    /\ UNCHANGED <<mainvars, printed, mpc, regs, zf, mstack, buffer, stdout, oob>>

ExecCall ==
    /\ Running("call")
    /\ mstack' = Append(mstack, RetAddr(ip + 1))
    /\ ip' = NextInstr(file, LabelIndex(file, Cur.src))
    /\ printed' = Append(printed, regs["rdi"])
    /\ UNCHANGED <<mainvars, mpc, regs, zf, buffer, stdout, oob>>

ExecRet ==
    /\ Running("ret")
    /\ IF mstack # <<>> /\ mstack[Len(mstack)].kind = "ret"
       THEN /\ ip' = NextInstr(file, mstack[Len(mstack)].ret)
            /\ mstack' = SubSeq(mstack, 1, Len(mstack) - 1)
            /\ mpc' = mpc
       ELSE /\ mpc' = "fault"
            /\ UNCHANGED <<ip, mstack>>
    /\ UNCHANGED <<mainvars, printed, regs, zf, buffer, stdout, oob>>

\* the bytes at a .. a + n - 1
MemBytes(a, n) == [i \in 1..n |-> MemByte(buffer, a + i - 1)]

\* write(1, rsi, rdx): the bytes go to stdout when all of them are mapped
SysWrite ==
    LET fd == Small(regs["rdi"])
        a  == Small(regs["rsi"])
        n  == Small(regs["rdx"])
        ok == /\ fd = 1 /\ a >= 0 /\ n >= 0 /\ n <= BufferSize
              /\ \A i \in 0..(n - 1) : Mapped(a + i)
    IN  /\ stdout' = IF ok THEN stdout \o MemBytes(a, n) ELSE stdout
        /\ oob' = (oob \/ ~ok)
        /\ \E c \in SyscallClobbers :
              regs' = [regs EXCEPT !["rax"] = IF ok THEN W(n) ELSE NegLimbs(W(14)),
                                   !["rcx"] = c]
        /\ ip' = Fall
        /\ mpc' = mpc

\* syscall: rax selects write (1) or exit (60)
ExecSyscall ==
    /\ Running("syscall")
    /\ LET n == Small(regs["rax"])
       IN  CASE n = 1  -> SysWrite
             [] n = 60 -> /\ mpc' = "exit"
                          /\ UNCHANGED <<regs, ip, stdout, oob>>
             [] OTHER  -> /\ \E c \in SyscallClobbers :
                                regs' = [regs EXCEPT !["rax"] = NegLimbs(W(38)),
                                                     !["rcx"] = c]
                          /\ ip' = Fall
                          /\ UNCHANGED <<mpc, stdout, oob>>
    /\ UNCHANGED <<mainvars, printed, zf, mstack, buffer>>

MachineStep ==
    \/ MachineStart
    \/ ExecMov \/ ExecPush \/ ExecPop \/ ExecAdd \/ ExecSub \/ ExecImul
    \/ ExecIdiv \/ ExecDiv \/ ExecXor \/ ExecAddByte \/ ExecDec \/ ExecStore
    \/ ExecTest \/ ExecJnz \/ ExecCall \/ ExecRet \/ ExecSyscall

Next == MainStep \/ ParseStep \/ MachineStep

Spec == Init /\ [][Next]_vars

-----------------------------------------------------------------------------
(* The lexer on its own: next_token called again and again *)

\* calls of next_token made after the first Token::EOF
MaxEofCalls == 3

EofCount == Cardinality({i \in 1..Len(tokens) : tokens[i] = EOF})

LexInit ==
    /\ argv = "file"
    /\ source \in Sources
    /\ mainpc = "lexer"
    /\ panic = ""
    /\ input = source
    /\ pos = 0
    /\ current = EOF
    /\ tokens = <<>>
    /\ stack = <<>>
    /\ ret = NoExpr
    /\ stmts = <<>>
    /\ output = <<>>
    /\ file = <<>>
    /\ MachineOff

\* one call of Lexer::next_token by a caller that keeps the token
LexCall ==
    /\ mainpc = "lexer"
    /\ EofCount <= MaxEofCalls
    /\ LET r == next_token(input, pos)
       IN  IF r.panic # ""
           THEN /\ mainpc' = "panicked"
                /\ panic' = r.panic
                /\ UNCHANGED <<pos, current, tokens>>
           ELSE /\ pos' = r.pos
                /\ current' = r.tok
                /\ tokens' = Append(tokens, r.tok)
                /\ UNCHANGED <<mainpc, panic>>
    /\ UNCHANGED <<argv, source, input, stack, ret, stmts, output, file, mvars>>

LexNext == LexCall

LexSpec == LexInit /\ [][LexNext]_vars

-----------------------------------------------------------------------------
(* The code generator on its own: generate applied to any Program *)

\* literals -MaxLit .. MaxLit are sampled, with 7, -7 and the two extremes
MaxLit == 2

MaxI64 == [i \in 1..WordBytes |-> IF i = WordBytes THEN 127 ELSE 255]

MinI64 == [i \in 1..WordBytes |-> IF i = WordBytes THEN 128 ELSE 0]

\* a small integer as an i64
I64(n) == IF n < 0 THEN NegLimbs(W(-n)) ELSE W(n)

SampleInts == {I64(n) : n \in (-MaxLit..MaxLit) \cup {-7, 7}} \cup {MaxI64, MinI64}

BinOps == {"Plus", "Minus", "Mul", "Div"}

ExprInputs == {BinOp(Num(a), op, Num(b)) : a \in SampleInts, b \in SampleInts, op \in BinOps}

ExprInit ==
    /\ argv = "file"
    /\ source = <<>>
    /\ mainpc = "generate"
    /\ panic = ""
    /\ input = <<>>
    /\ pos = 0
    /\ current = EOF
    /\ tokens = <<>>
    /\ stack = <<>>
    /\ ret = NoExpr
    /\ stmts \in {<<PrintStmt(e)>> : e \in ExprInputs}
    /\ output = <<>>
    /\ file = <<>>
    /\ MachineOff

ExprNext == Generate \/ WriteFile \/ MachineStep

ExprSpec == ExprInit /\ [][ExprNext]_vars

-----------------------------------------------------------------------------
(* Reference definitions the properties are stated with *)

\* the grammar of spec.md as a relation between a tree and the tokens it
\* covers, with left-recursive rules for the left-associative operators:
\*   expr := expr ("+"|"-") term | term
\*   term := term ("*"|"/") factor | factor
\*   factor := INTEGER | "(" expr ")"
RECURSIVE IsExpr(_, _), IsTerm(_, _), IsFactor(_, _)
IsFactor(t, s) ==
    \/ /\ Len(s) = 1
       /\ s[1].kind = "Int"
       /\ t.tag = "Num"
       /\ t.n = s[1].val
    \/ /\ Len(s) >= 3
       /\ s[1].kind = "LParen"
       /\ s[Len(s)].kind = "RParen"
       /\ IsExpr(t, SubSeq(s, 2, Len(s) - 1))

IsTerm(t, s) ==
    \/ IsFactor(t, s)
    \/ /\ t.tag = "BinOp"
       /\ t.op \in {"Mul", "Div"}
       /\ \E k \in 2..(Len(s) - 1) :
             /\ s[k].kind = t.op
             /\ IsTerm(t.left, SubSeq(s, 1, k - 1))
             /\ IsFactor(t.right, SubSeq(s, k + 1, Len(s)))

IsExpr(t, s) ==
    \/ IsTerm(t, s)
    \/ /\ t.tag = "BinOp"
       /\ t.op \in {"Plus", "Minus"}
       /\ \E k \in 2..(Len(s) - 1) :
             /\ s[k].kind = t.op
             /\ IsExpr(t.left, SubSeq(s, 1, k - 1))
             /\ IsTerm(t.right, SubSeq(s, k + 1, Len(s)))

\* the positions of the tokens of kind k in the history
KindIdx(k) == {i \in 1..Len(tokens) : tokens[i].kind = k}

\* the n-th smallest element of a set of numbers
Nth(S, n) == CHOOSE i \in S : Cardinality({j \in S : j <= i}) = n

\* the tokens of the n-th statement between its `print` and its `;`
StmtTokens(n) ==
    SubSeq(tokens, Nth(KindIdx("Print"), n) + 1, Nth(KindIdx("Semi"), n) - 1)

\* signed 64-bit division truncating toward zero; not ok for a zero divisor
\* and for MinI64 / -1
SDiv(a, b) ==
    LET an == IsNeg(a)
        bn == IsNeg(b)
        qr == UDivMod(IF an THEN NegLimbs(a) ELSE a, IF bn THEN NegLimbs(b) ELSE b)
    IN  IF IsZero(b) \/ (a = MinI64 /\ b = I64(-1)) THEN [ok |-> FALSE, v |-> ZeroW]
        ELSE [ok |-> TRUE, v |-> IF an # bn THEN NegLimbs(qr.q) ELSE qr.q]

\* a op b on i64, wrapping
HostOp(a, op, b) ==
    CASE op = "Plus"  -> [ok |-> TRUE, v |-> AddLimbs(a, b, 0)]
      [] op = "Minus" -> [ok |-> TRUE, v |-> SubLimbs(a, b)]
      [] op = "Mul"   -> [ok |-> TRUE, v |-> MulLimbs(a, b)]
      [] op = "Div"   -> SDiv(a, b)

\* the value of an expression tree
RECURSIVE Eval(_)
Eval(e) ==
    IF e.tag = "Num" THEN [ok |-> TRUE, v |-> e.n]
    ELSE LET l == Eval(e.left)
             r == Eval(e.right)
         IN  IF l.ok /\ r.ok THEN HostOp(l.v, e.op, r.v)
             ELSE [ok |-> FALSE, v |-> ZeroW]

\* the nesting depth of an expression: 0 for a literal
RECURSIVE Depth(_)
Depth(e) ==
    IF e.tag = "Num" THEN 0
    ELSE LET l == Depth(e.left)
             r == Depth(e.right)
         IN  1 + (IF l > r THEN l ELSE r)

-----------------------------------------------------------------------------
(* C1 *)

\* C1: every statement the parser has accepted has the tree the grammar
\* gives its tokens: `*` and `/` group tighter than `+` and `-`, operators
\* of one precedence fold to the left, a parenthesised expression is one
\* operand; and the trees of `print 2+3*4;` and `print (1+2)*3;` evaluate to
\* 14 and 9
C1_Precedence ==
    /\ \A n \in 1..Len(stmts) : IsExpr(stmts[n].expr, StmtTokens(n))
    /\ (source = SrcPrec /\ Len(stmts) = 1) => Eval(stmts[1].expr).v = W(14)
    /\ (source = SrcParen /\ Len(stmts) = 1) => Eval(stmts[1].expr).v = W(9)
    /\ (source = SrcLeftAssoc /\ Len(stmts) = 1) =>
           stmts[1].expr = BinOp(BinOp(Num(W(8)), "Minus", Num(W(3))), "Minus", Num(W(2)))

\* a parsed statement whose tree is a product with a parenthesised sum as its
\* left operand
C1_Witness ==
    \E n \in 1..Len(stmts) :
        LET e == stmts[n].expr
        IN  /\ e.tag = "BinOp"
            /\ e.op = "Mul"
            /\ e.left.tag = "BinOp"
            /\ e.left.op = "Plus"

-----------------------------------------------------------------------------
(* C3 *)

KnownChars ==
    {"0", "1", "2", "3", "4", "5", "6", "7", "8", "9", "+", "-", "*", "/",
     "(", ")", ";", " ", "\t", "\n", "\r", "p", "r", "i", "n", "t"}

\* a character no token can hold
HasUnknownChar(src) == \E i \in 1..Len(src) : src[i] \notin KnownChars

\* the last character that is not whitespace is not `;`
MissingSemi(src) ==
    LET N == {i \in 1..Len(src) : src[i] \notin {" ", "\t", "\n", "\r"}}
    IN  /\ N # {}
        /\ src[CHOOSE i \in N : \A j \in N : j <= i] # ";"

\* a `p` that does not start `print`
BadKeyword(src) ==
    \E i \in 1..Len(src) :
        /\ src[i] = "p"
        /\ ~(i + 4 <= Len(src) /\ SubSeq(src, i, i + 4) = <<"p", "r", "i", "n", "t">>)

\* the digits of 2^63 - 1
MaxI64Digits ==
    <<"9", "2", "2", "3", "3", "7", "2", "0", "3", "6", "8", "5", "4", "7", "7",
      "5", "8", "0", "7">>

DigitOrd(c) == CHOOSE d \in 0..9 : DigitChars[d + 1] = c

\* digit strings of equal length: a > b
DigitsGreater(a, b) ==
    \E i \in 1..Len(a) :
        /\ DigitOrd(a[i]) > DigitOrd(b[i])
        /\ \A j \in 1..(i - 1) : a[j] = b[j]

IsDigitChar(c) == c \in {"0", "1", "2", "3", "4", "5", "6", "7", "8", "9"}

\* a maximal run of digits src[i..j] that spells a number above 2^63 - 1
OverflowLiteral(src) ==
    \E i \in 1..Len(src), j \in 1..Len(src) :
        /\ i <= j
        /\ \A k \in i..j : IsDigitChar(src[k])
        /\ i = 1 \/ ~IsDigitChar(src[i - 1])
        /\ j = Len(src) \/ ~IsDigitChar(src[j + 1])
        /\ \E k \in i..j :
              /\ src[k] # "0"
              /\ \A m \in i..(k - 1) : src[m] = "0"
              /\ \/ j - k + 1 > Len(MaxI64Digits)
                 \/ /\ j - k + 1 = Len(MaxI64Digits)
                    /\ DigitsGreater(SubSeq(src, k, j), MaxI64Digits)

\* as many `(` as `)` are needed by the grammar
UnbalancedParens(src) ==
    Cardinality({i \in 1..Len(src) : src[i] = "("})
        # Cardinality({i \in 1..Len(src) : src[i] = ")"})

Malformed(src) ==
    \/ HasUnknownChar(src)
    \/ MissingSemi(src)
    \/ BadKeyword(src)
    \/ OverflowLiteral(src)
    \/ UnbalancedParens(src)

\* C3: out.asm exists only once Parser::program has returned for the whole
\* input (lookahead EOF, cursor at the end, no panic); a run that panicked
\* has written nothing; and a source with an unknown character, without the
\* closing `;`, with a `p` that is not `print`, with a literal above
\* 2^63 - 1 or with unmatched parentheses never gets an out.asm
C3_NoPartialOutput ==
    /\ file # <<>> =>
          /\ mainpc = "done"
          /\ panic = ""
          /\ stack = <<>>
          /\ current = EOF
          /\ pos = Len(input)
          /\ file = output
    /\ mainpc = "panicked" => (file = <<>> /\ output = <<>> /\ mpc = "off")
    /\ Malformed(source) => file = <<>>
    /\ argv # "file" => file = <<>>

\* a run that aborted on a token mismatch after it had parsed a statement
C3_Witness ==
    /\ mainpc = "panicked"
    /\ panic = "Unexpected token"
    /\ stmts # <<>>
    /\ MissingSemi(source)
    /\ file = <<>>

-----------------------------------------------------------------------------
(* C5 *)

IsImmLine(l) == Head(l) = MovRaxImm

\* the immediates of the `mov rax, <n>` lines, in line order
Immediates(lines) ==
    LET ls == SelectSeq(lines, IsImmLine)
    IN  [i \in 1..Len(ls) |-> ParseImm(Tail(ls[i]))]

IsIntTok(t) == t.kind = "Int"

\* the literals of the source, in source order
IntVals ==
    LET ts == SelectSeq(tokens, IsIntTok)
    IN  [i \in 1..Len(ts) |-> ts[i].val]

CallLine == Line("    call print_int")

\* C5: the generated text is the preamble, then the statements' lines in
\* source order, then the epilogue and the declarations: the literals loaded
\* appear in the order of the source, there is one `call print_int` per
\* `print` of the source, each right after `mov rdi, rax`, all between
\* `_start:` and the epilogue; and the run of a program of bare literals
\* prints them in source order
C5_EmissionOrder ==
    /\ mainpc \in {"write", "done"} =>
          LET tail == Epilogue \o DataDecls
              body == SubSeq(output, Len(Preamble) + 1, Len(output) - Len(tail))
          IN  /\ Len(output) >= Len(Preamble) + Len(tail)
              /\ SubSeq(output, 1, Len(Preamble)) = Preamble
              /\ SubSeq(output, Len(output) - Len(tail) + 1, Len(output)) = tail
              /\ Immediates(body) = IntVals
              /\ Cardinality({i \in 1..Len(body) : body[i] = CallLine})
                    = Cardinality(KindIdx("Print"))
              /\ Cardinality(KindIdx("Print")) = Len(stmts)
              /\ \A i \in 1..Len(body) :
                    body[i] = CallLine =>
                        (i > 1 /\ body[i - 1] = Line("    mov rdi, rax"))
              /\ body # <<>> => body[Len(body)] = CallLine
    /\ mpc = "exit" => Len(printed) = Len(stmts)
    /\ (mpc = "exit" /\ \A n \in 1..Len(stmts) : stmts[n].expr.tag = "Num") =>
          printed = IntVals

\* the run of a three-statement program has ended
C5_Witness ==
    /\ mpc = "exit"
    /\ Len(stmts) = 3
    /\ Len(printed) = 3
    /\ printed[1] # printed[3]

-----------------------------------------------------------------------------
(* C10 *)

\* what is left to lex: the characters after the cursor, and the lookahead
Measure == (Len(input) - pos) + (IF current = EOF THEN 0 ELSE 1)

\* the steps that start an iteration of a loop of program, expr or term
\* (for program: the statement it calls starts)
IterationStart ==
    \/ At("statement", "start")
    \/ At("expr", "loop") /\ current.kind \in {"Plus", "Minus"}
    \/ At("term", "loop") /\ current.kind \in {"Mul", "Div"}

\* how many steps the parser can still take at a location before it must
\* take a token from the lexer, return, or abort
Weight(fn, pc) ==
    CASE fn = "program"   /\ pc = "start"  -> 2
      [] fn = "program"   /\ pc = "push"   -> 3
      [] fn = "statement" /\ pc = "start"  -> 1
      [] fn = "statement" /\ pc = "semi"   -> 1
      [] fn = "expr"      /\ pc = "start"  -> 7
      [] fn = "expr"      /\ pc = "first"  -> 3
      [] fn = "expr"      /\ pc = "fold"   -> 3
      [] fn = "expr"      /\ pc = "loop"   -> 2
      [] fn = "term"      /\ pc = "start"  -> 6
      [] fn = "term"      /\ pc = "first"  -> 5
      [] fn = "term"      /\ pc = "fold"   -> 5
      [] fn = "term"      /\ pc = "loop"   -> 4
      [] fn = "factor"    /\ pc = "start"  -> 1
      [] fn = "factor"    /\ pc = "rparen" -> 1
      [] OTHER -> 100

\* the variant of the lex/parse stage: what is left to lex, then the weight
\* of the location the parser is at
Rank ==
    10 * Measure
      + (CASE mainpc = "new" -> 9
           [] mainpc = "program" /\ stack # <<>> -> Weight(Top.fn, Top.pc)
           [] OTHER -> 0)

FrontRunning == mainpc \in {"new", "program"}

\* C10: the cursor never moves back and stays within the input; a step that
\* takes a token from the lexer strictly lowers what is left to lex; every
\* loop iteration of program, expr and term takes a token or aborts; the
\* lex/parse stage never loops forever: every step of it lowers a variant
\* that is never negative, and at every location it reaches it either
\* steps or has ended; and when program returns the lookahead is EOF
C10_FrontEndTerminates ==
    /\ [](pos <= Len(input) /\ Rank >= 0)
    /\ [](mainpc = "program" => (stack # <<>> /\ Weight(Top.fn, Top.pc) < 10))
    /\ [](mainpc = "generate" => (current = EOF /\ stack = <<>>))
    /\ [][pos' >= pos]_vars
    /\ [][(mainpc = "program" /\ Len(tokens') > Len(tokens)) => Measure' < Measure]_vars
    /\ [][IterationStart => (Len(tokens') > Len(tokens) \/ mainpc' = "panicked")]_vars
    /\ [][FrontRunning => Rank' < Rank]_vars

\* program has returned after three iterations of its loop
C10_Witness ==
    /\ mainpc = "generate"
    /\ Len(stmts) = 3
    /\ current = EOF

-----------------------------------------------------------------------------
(* C4 *)

\* C4: once next_token has returned EOF, a further call returns EOF again,
\* does not panic, and leaves pos where it was
C4_EofIdempotent ==
    [][(tokens # <<>> /\ tokens[Len(tokens)] = EOF) =>
          (/\ tokens' = Append(tokens, EOF)
           /\ current' = EOF
           /\ pos' = pos
           /\ panic' = "")]_vars

\* next_token has been called twice more after a first EOF that followed
\* other tokens
C4_Witness ==
    /\ mainpc = "lexer"
    /\ EofCount >= 3
    /\ Len(tokens) > EofCount

-----------------------------------------------------------------------------
(* Where the running process is *)

\* the process is about to execute the line with this text
AtLine(text) == mpc = "run" /\ ip <= Len(file) /\ file[ip] = Line(text)

\* the statement whose lines are being executed: one call per statement
StmtIndex == Len(printed) + 1

\* the process is in the lines of a statement, not in print_int
InStatement == mpc \in {"run", "fault"} /\ StmtIndex <= Len(stmts)
                  /\ \A i \in 1..Len(mstack) : mstack[i].kind = "word"

\* the bytes of a line of decimal text
Ascii(chars) == [i \in 1..Len(chars) |-> IF chars[i] = "-" THEN 45 ELSE 48 + DigitVal(chars[i])]

\* the magnitude of an i64, as an unsigned word
Magnitude(v) == IF IsNeg(v) THEN NegLimbs(v) ELSE v

-----------------------------------------------------------------------------
(* C2 *)

\* the one statement `print a op b;` the code generator was given
TheExpr == stmts[1].expr

-----------------------------------------------------------------------------
(* C7 *)

\* C7: for every expression the parser built whose value is defined, the
\* lines of gen_expr run without a fault and leave the value of the whole
\* expression, under wrapping signed arithmetic with truncating division,
\* in rax
C7_AccumulatorInvariant ==
    (mainpc = "done" /\ InStatement /\ Eval(stmts[StmtIndex].expr).ok) =>
        /\ mpc # "fault"
        /\ AtLine("    mov rdi, rax") => regs["rax"] = Eval(stmts[StmtIndex].expr).v

-----------------------------------------------------------------------------
(* C6 *)

\* the decimal text of a value and a newline, for each value in turn; the
\* digits of a negative value are those of its magnitude, with or without
\* a leading minus sign
RECURSIVE IsDecimalLines(_, _)
IsDecimalLines(out, vs) ==
    IF vs = <<>> THEN out = <<>>
    ELSE \E text \in {FormatI64(Head(vs)), DecDigits(Magnitude(Head(vs)))} :
            LET bytes == Ascii(text) \o <<10>>
            IN  /\ Len(out) >= Len(bytes)
                /\ SubSeq(out, 1, Len(bytes)) = bytes
                /\ IsDecimalLines(SubSeq(out, Len(bytes) + 1, Len(out)), Tail(vs))

\* C6: whenever print_int returns, what the process has written is, for
\* each value print_int was called with, the decimal digits of that value,
\* most significant first, followed by one newline byte
C6_PrintsDecimal ==
    (AtLine("    ret") \/ mpc = "exit") => IsDecimalLines(stdout, printed)


-----------------------------------------------------------------------------
(* C8 *)

\* pushes minus pops over a sequence of lines
RECURSIVE NetPushes(_)
NetPushes(lines) ==
    IF lines = <<>> THEN 0
    ELSE NetPushes(Front(lines))
           + (CASE lines[Len(lines)] = Line("    push rax") -> 1
                [] lines[Len(lines)] = Line("    pop rbx")  -> -1
                [] OTHER -> 0)

\* no prefix pops more than it pushed, and the whole sequence nets to zero
Balanced(lines) ==
    /\ \A k \in 0..Len(lines) : NetPushes(SubSeq(lines, 1, k)) >= 0
    /\ NetPushes(lines) = 0

\* C8: the lines gen_expr emits for an expression are balanced in push rax
\* and pop rbx; the machine stack is at its _start depth at every call of
\* print_int and at exit, holds only the return address inside print_int,
\* and within a statement is never deeper than the nesting depth of the
\* statement's expression
C8_StackBalance ==
    /\ mainpc = "generate" =>
          \A k \in 1..Len(stmts) : Balanced(gen_expr(stmts[k].expr))
    /\ AtLine("    call print_int") => mstack = <<>>
    /\ mpc = "exit" => mstack = <<>>
    /\ (mpc = "run" /\ mstack # <<>> /\ mstack[Len(mstack)].kind = "ret") => Len(mstack) = 1
    /\ (mainpc = "done" /\ InStatement) => Len(mstack) <= Depth(stmts[StmtIndex].expr)
    /\ (mpc = "run" /\ StmtIndex > Len(stmts)) =>
          (mstack = <<>> \/ (Len(mstack) = 1 /\ mstack[1].kind = "ret"))

\* a statement nested four deep is running with four words pushed
C8_Witness ==
    /\ mainpc = "done"
    /\ InStatement
    /\ Depth(stmts[StmtIndex].expr) = 4
    /\ Len(mstack) = 4
    /\ AtLine("    pop rbx")

-----------------------------------------------------------------------------
(* C9 *)

\* the line index of the convert label
ConvertIndex == LabelIndex(file, "convert:")

\* from the first instruction of the convert loop to the first syscall
InConvert == mpc = "run" /\ ip > ConvertIndex /\ ip <= ConvertIndex + 13

\* the value print_int was last called with
LastPrinted == printed[Len(printed)]

\* C9: no access leaves `buffer`; in the convert loop rcx stays within
\* buffer .. buffer+20, so the loop has run at most 20 times; every store
\* is at buffer .. buffer+19; and the write syscall is given the address of
\* the last digit stored and a length, buffer+20 minus rcx, that is the
\* number of digits stored, between 1 and 20
C9_BufferSafety ==
    /\ ~oob
    /\ InConvert =>
          /\ Small(regs["rcx"]) >= BufferAddr
          /\ Small(regs["rcx"]) <= BufferAddr + 20
    /\ AtLine("    mov [rcx], dl") =>
          /\ Small(regs["rcx"]) >= BufferAddr
          /\ Small(regs["rcx"]) <= BufferAddr + 19
    /\ (AtLine("    syscall") /\ ip = ConvertIndex + 13) =>
          /\ regs["rsi"] = regs["rcx"]
          /\ Small(regs["rdx"]) = BufferAddr + 20 - Small(regs["rcx"])
          /\ Small(regs["rdx"]) = Len(DecDigits(LastPrinted))
          /\ Small(regs["rdx"]) \in 1..20
          /\ MemBytes(Small(regs["rsi"]), Small(regs["rdx"])) = Ascii(DecDigits(LastPrinted))

\* the twentieth digit of a value is about to be stored at `buffer`
C9_Witness ==
    /\ AtLine("    mov [rcx], dl")
    /\ Small(regs["rcx"]) = BufferAddr
    /\ Len(DecDigits(LastPrinted)) = 20


=============================================================================
